---- MODULE Spec2Model ----
(***************************************************************************)
(* State-machine model of flet_notify.py: the FletNotify manager (one per  *)
(* page), NotificationBuilder, NotificationConfig and FletNotification,    *)
(* together with the android_notify backend they call into.                *)
(***************************************************************************)
EXTENDS Integers, Sequences, FiniteSets, TLC

VARIABLES
    instances,      \* FletNotify._instances: page -> manager object (0 = no entry)
    managers,       \* heap of FletNotify objects, index = object identity
    held,           \* <<page, manager>> references returned to callers
    threads,        \* per thread: where it stands inside a FletNotify(page) call
    lists,          \* list objects the caller holds: contents, and the configs whose
                    \* inbox_lines is that very object
    backendAvail,   \* whether "import android_notify" succeeds
    configs,        \* heap of NotificationConfig objects
    builders,       \* heap of NotificationBuilder objects
    notifs,         \* heap of FletNotification objects
    last            \* the last call: operation, arguments, outcome, backend calls

vars == <<instances, managers, held, threads, lists, backendAvail, configs, builders,
          notifs, last>>

(***************************************************************************)
(* Bounds and input domains                                                *)
(***************************************************************************)
MaxBuilders == 2
MaxNotifs == 1
MaxLines == 2
MaxCancels == 2

None == "<None>"

\* list objects the caller builds once and may pass to set_lines more than once
ListIds == {"L"}

\* threads that may call FletNotify(page) at the same time, and a thread outside
\* any call
Threads == {"t1", "t2"}
Idle == [pc |-> "idle", page |-> None, obj |-> 0]

ANDROID == "android"
Pages == {"pageA", "pageB", "pageIos", "pageWin"}
platform(pg) ==
    CASE pg = "pageIos" -> "ios"
      [] pg = "pageWin" -> "windows"
      [] OTHER -> ANDROID

Titles == {"T"}
Messages == {"M"}
NewTexts == {"N"}
Paths == {"", "p1", "p2"}
Bodies == {"", "body"}
LineTexts == {"l1", "l2"}
ButtonInputs == {[text |-> "Yes", callback |-> "on_yes"],
                 [text |-> "No", callback |-> "on_no"]}
ProgressInputs == {[current |-> 0, max_value |-> 100], [current |-> 5, max_value |-> 10]}
\* update_progress(current, message=...) inputs: in range, above max_value, below 0
ProgressUpdates == {[current |-> 50, title |-> None, message |-> "50%"],
                    [current |-> 200, title |-> "N", message |-> None],
                    [current |-> -1, title |-> None, message |-> ""]}

RECURSIVE SeqsUpTo(_, _)
SeqsUpTo(S, n) ==
    IF n = 0 THEN {<<>>}
    ELSE LET shorter == SeqsUpTo(S, n - 1)
         IN shorter \cup {Append(s, x) : s \in {t \in shorter : Len(t) = n - 1}, x \in S}

(***************************************************************************)
(* NotificationStyle and NotificationImportance values                     *)
(***************************************************************************)
SIMPLE == "simple"
PROGRESS == "progress"
INBOX == "inbox"
BIG_TEXT == "big_text"
LARGE_ICON == "large_icon"
BIG_PICTURE == "big_picture"
BOTH_IMAGES == "both_imgs"
NotificationStyle == {SIMPLE, PROGRESS, INBOX, BIG_TEXT, LARGE_ICON, BIG_PICTURE, BOTH_IMAGES}

URGENT == "urgent"

\* Python truthiness of an Optional[str]: None and "" are falsy.
Truthy(s) == s # None /\ s # ""

\* NotificationConfig(title, message, channel_id, channel_name, importance,
\* notification_id) with the dataclass defaults for the other fields.
NotificationConfig(title, message, channel_id, channel_name, importance, notification_id) ==
    [title |-> title,
     message |-> message,
     channel_id |-> channel_id,
     channel_name |-> channel_name,
     importance |-> importance,
     style |-> SIMPLE,
     notification_id |-> notification_id,
     app_icon |-> None,
     buttons |-> <<>>,
     progress_current |-> 0,
     progress_max |-> 100,
     large_icon_path |-> None,
     big_picture_path |-> None,
     big_text_body |-> None,
     inbox_lines |-> <<>>]

(***************************************************************************)
(* NotificationBuilder setters as functions on the config they mutate      *)
(***************************************************************************)
MaxButtons == 3

set_icon(cfg, path) == [cfg EXCEPT !.app_icon = path]

\* faulty variant: the limit check is off by one
add_button_raises_off_by_one(cfg) == Len(cfg.buttons) > MaxButtons

add_button_raises(cfg) == Len(cfg.buttons) >= MaxButtons

add_button(cfg, text, callback) ==
    [cfg EXCEPT !.buttons = Append(@, [text |-> text, callback |-> callback])]

\* faulty variant: switching to progress wipes the image paths
with_progress_clears_images(cfg, current, max_value) ==
    [cfg EXCEPT !.style = PROGRESS,
                !.progress_current = current,
                !.progress_max = max_value,
                !.large_icon_path = None,
                !.big_picture_path = None]

with_progress(cfg, current, max_value) ==
    [cfg EXCEPT !.style = PROGRESS,
                !.progress_current = current,
                !.progress_max = max_value]

\* faulty variant: the combination test reads the field being set, not the other image
set_large_icon_tests_own_path(cfg, path) ==
    [cfg EXCEPT !.style = IF Truthy(cfg.large_icon_path) THEN BOTH_IMAGES ELSE LARGE_ICON,
                !.large_icon_path = path]

set_large_icon(cfg, path) ==
    [cfg EXCEPT !.style = IF Truthy(cfg.big_picture_path) THEN BOTH_IMAGES ELSE LARGE_ICON,
                !.large_icon_path = path]

\* faulty variant: the combination test asks whether the other path was ever
\* assigned, not whether it is non-empty
set_big_picture_tests_assigned(cfg, path) ==
    [cfg EXCEPT !.style = IF cfg.large_icon_path # None THEN BOTH_IMAGES ELSE BIG_PICTURE,
                !.big_picture_path = path]

\* faulty variant: the big picture always becomes the only image of the style
set_big_picture_forgets_icon(cfg, path) ==
    [cfg EXCEPT !.style = BIG_PICTURE, !.big_picture_path = path]

set_big_picture(cfg, path) ==
    [cfg EXCEPT !.style = IF Truthy(cfg.large_icon_path) THEN BOTH_IMAGES ELSE BIG_PICTURE,
                !.big_picture_path = path]

\* faulty variant: the body is stored but the style is not switched
set_big_text_keeps_style(cfg, body) == [cfg EXCEPT !.big_text_body = body]

set_big_text(cfg, body) ==
    [cfg EXCEPT !.style = BIG_TEXT, !.big_text_body = body]

add_line(cfg, text) ==
    [cfg EXCEPT !.style = INBOX, !.inbox_lines = Append(@, text)]

set_lines(cfg, lines) ==
    [cfg EXCEPT !.style = INBOX, !.inbox_lines = lines]

(***************************************************************************)
(* Outcomes of a call: a normal return or the exception that leaves it     *)
(***************************************************************************)
Returned == [type |-> "return", msg |-> ""]
ErrNotSent == [type |-> "FletNotifyException", msg |-> "Notificacao ainda nao foi enviada"]
ErrWrongStyle ==
    [type |-> "FletNotifyException", msg |-> "update_progress requer NotificationStyle.PROGRESS"]
ErrTooManyButtons ==
    [type |-> "FletNotifyException", msg |-> "Maximo de 3 botoes por notificacao"]
ErrSendFailed == [type |-> "FletNotifyException", msg |-> "Falha ao enviar notificacao"]
ErrPlatform ==
    [type |-> "PlatformNotSupportedException", msg |-> "FletNotify suporta apenas Android"]
ErrNotAvailable ==
    [type |-> "AndroidNotifyNotAvailableException",
     msg |-> "android-notify nao esta instalado ou configurado"]
\* An exception raised inside android_notify that reaches the caller unwrapped.
ErrBackend == [type |-> "Exception", msg |-> "raised by android_notify"]

(***************************************************************************)
(* FletNotification.send: the keyword arguments built for the backend's    *)
(* Notification(...) and the calls made on the object it returns           *)
(***************************************************************************)
RECURSIVE Join(_)
Join(lines) ==
    IF Len(lines) = 0 THEN ""
    ELSE IF Len(lines) = 1 THEN lines[1]
    ELSE lines[1] \o "\n" \o Join(Tail(lines))

\* faulty variant: the progress values are handed over whatever the style
StyleKwargs_keeps_progress(cfg) ==
    [progress_current_value |-> cfg.progress_current,
     progress_max_value |-> cfg.progress_max]
    @@ (CASE cfg.style = LARGE_ICON -> [large_icon_path |-> cfg.large_icon_path]
          [] cfg.style = BIG_PICTURE -> [big_picture_path |-> cfg.big_picture_path]
          [] cfg.style = BOTH_IMAGES ->
                [large_icon_path |-> cfg.large_icon_path,
                 big_picture_path |-> cfg.big_picture_path]
          [] cfg.style = BIG_TEXT -> [body |-> cfg.big_text_body]
          [] cfg.style = INBOX -> [lines_txt |-> Join(cfg.inbox_lines)]
          [] OTHER -> <<>>)

StyleKwargs(cfg) ==
    CASE cfg.style = PROGRESS ->
            [progress_current_value |-> cfg.progress_current,
             progress_max_value |-> cfg.progress_max]
      [] cfg.style = LARGE_ICON -> [large_icon_path |-> cfg.large_icon_path]
      [] cfg.style = BIG_PICTURE -> [big_picture_path |-> cfg.big_picture_path]
      [] cfg.style = BOTH_IMAGES ->
            [large_icon_path |-> cfg.large_icon_path,
             big_picture_path |-> cfg.big_picture_path]
      [] cfg.style = BIG_TEXT -> [body |-> cfg.big_text_body]
      [] cfg.style = INBOX -> [lines_txt |-> Join(cfg.inbox_lines)]
      [] OTHER -> <<>>

Kwargs(cfg) ==
    [title |-> cfg.title,
     message |-> cfg.message,
     channel_id |-> cfg.channel_id,
     channel_name |-> cfg.channel_name,
     style |-> cfg.style]
    @@ (IF Truthy(cfg.notification_id) THEN [name |-> cfg.notification_id] ELSE <<>>)
    @@ (IF Truthy(cfg.app_icon) THEN [app_icon |-> cfg.app_icon] ELSE <<>>)
    @@ StyleKwargs(cfg)

\* Where the backend raises during send: nowhere, in Notification(**kwargs),
\* in the k-th addButton, or in the handle's send.
FailPoints(cfg) ==
    {[at |-> "none", k |-> 0], [at |-> "create", k |-> 0], [at |-> "send", k |-> 0]}
    \cup {[at |-> "button", k |-> i] : i \in 1..Len(cfg.buttons)}

\* faulty variant: the buttons are attached last to first
ButtonCalls_reversed(cfg, n, raisedAt) ==
    [i \in 1..n |-> [call |-> "addButton",
                     text |-> cfg.buttons[Len(cfg.buttons) + 1 - i].text,
                     callback |-> cfg.buttons[Len(cfg.buttons) + 1 - i].callback,
                     raised |-> (i = raisedAt)]]

ButtonCalls(cfg, n, raisedAt) ==
    [i \in 1..n |-> [call |-> "addButton",
                     text |-> cfg.buttons[i].text,
                     callback |-> cfg.buttons[i].callback,
                     raised |-> (i = raisedAt)]]

\* The backend calls send makes, in order, up to and including the one that raises.
SendCalls(cfg, opts, fail) ==
    LET create == [call |-> "Notification", kwargs |-> Kwargs(cfg),
                   raised |-> (fail.at = "create")]
        nb == Len(cfg.buttons)
    IN CASE fail.at = "create" -> <<create>>
         [] fail.at = "button" -> <<create>> \o ButtonCalls(cfg, fail.k, fail.k)
         [] OTHER ->
              <<create>> \o ButtonCalls(cfg, nb, 0)
              \o <<[call |-> "send", silent |-> opts.silent, persistent |-> opts.persistent,
                    close_on_click |-> opts.close_on_click, raised |-> (fail.at = "send")]>>

\* faulty variant: a failed send drops the backend object
SendHandle_clears_on_failure(n, cfg, fail) ==
    IF fail.at = "none" THEN <<[buttons |-> cfg.buttons, sent |-> TRUE]>> ELSE <<>>

\* self._notification after send: unchanged if Notification(...) raised, else
\* the new backend object with the buttons attached so far.
SendHandle(n, cfg, fail) ==
    CASE fail.at = "create" -> n.notification
      [] fail.at = "button" ->
            <<[buttons |-> SubSeq(cfg.buttons, 1, fail.k - 1), sent |-> FALSE]>>
      [] fail.at = "send" -> <<[buttons |-> cfg.buttons, sent |-> FALSE]>>
      [] OTHER -> <<[buttons |-> cfg.buttons, sent |-> TRUE]>>

\* faulty variant: the sent flag is raised before the handle's send is called
send_sets_flag_early(n, cfg, opts, fail, avail) ==
    IF ~avail
    THEN [notif |-> n, outcome |-> ErrNotAvailable, calls |-> <<>>]
    ELSE [notif |-> [n EXCEPT !.notification = SendHandle(n, cfg, fail),
                              !.sent = IF fail.at \in {"none", "send"} THEN TRUE ELSE @],
          outcome |-> IF fail.at = "none" THEN Returned ELSE ErrSendFailed,
          calls |-> SendCalls(cfg, opts, fail)]

\* faulty variant: the import failure falls into the generic handler
send_wraps_unavailable(n, cfg, opts, fail, avail) ==
    IF ~avail
    THEN [notif |-> n, outcome |-> ErrSendFailed, calls |-> <<>>]
    ELSE [notif |-> [n EXCEPT !.notification = SendHandle(n, cfg, fail),
                              !.sent = IF fail.at = "none" THEN TRUE ELSE @],
          outcome |-> IF fail.at = "none" THEN Returned ELSE ErrSendFailed,
          calls |-> SendCalls(cfg, opts, fail)]

\* FletNotification.send on instance record n with config cfg.
send(n, cfg, opts, fail, avail) ==
    IF ~avail
    THEN [notif |-> n, outcome |-> ErrNotAvailable, calls |-> <<>>]
    ELSE [notif |-> [n EXCEPT !.notification = SendHandle(n, cfg, fail),
                              !.sent = IF fail.at = "none" THEN TRUE ELSE @],
          outcome |-> IF fail.at = "none" THEN Returned ELSE ErrSendFailed,
          calls |-> SendCalls(cfg, opts, fail)]

\* FletNotification.__init__: the fields of a new instance.
NewFletNotification(page, config) ==
    [page |-> page, config |-> config, notification |-> <<>>, sent |-> FALSE, cancels |-> 0]

(***************************************************************************)
(* FletNotification post-send operations, as functions of the instance     *)
(* record n and its config; raises says whether the backend call throws    *)
(***************************************************************************)
\* faulty variant: the guard looks at the backend object only, not at the sent flag
NotSent_handle_only(n) == n.notification = <<>>

NotSent(n) == ~n.sent \/ n.notification = <<>>

update_title(n, cfg, new_title, raises) ==
    IF NotSent(n)
    THEN [cfg |-> cfg, outcome |-> ErrNotSent, calls |-> <<>>]
    ELSE [cfg |-> [cfg EXCEPT !.title = new_title],
          outcome |-> IF raises THEN ErrBackend ELSE Returned,
          calls |-> <<[call |-> "updateTitle", title |-> new_title, raised |-> raises]>>]

\* faulty variant: the new message is kept locally and not handed to the backend
update_message_local_only(n, cfg, new_message, raises) ==
    IF NotSent(n)
    THEN [cfg |-> cfg, outcome |-> ErrNotSent, calls |-> <<>>]
    ELSE [cfg |-> [cfg EXCEPT !.message = new_message], outcome |-> Returned,
          calls |-> <<>>]

update_message(n, cfg, new_message, raises) ==
    IF NotSent(n)
    THEN [cfg |-> cfg, outcome |-> ErrNotSent, calls |-> <<>>]
    ELSE [cfg |-> [cfg EXCEPT !.message = new_message],
          outcome |-> IF raises THEN ErrBackend ELSE Returned,
          calls |-> <<[call |-> "updateMessage", message |-> new_message, raised |-> raises]>>]

\* faulty variant: the message is stored locally but not handed to the backend
UpdateProgressKwargs_drops_message(current, title, message) ==
    [current_value |-> current]
    @@ (IF Truthy(title) THEN [title |-> title] ELSE <<>>)

UpdateProgressKwargs(current, title, message) ==
    [current_value |-> current]
    @@ (IF Truthy(title) THEN [title |-> title] ELSE <<>>)
    @@ (IF Truthy(message) THEN [message |-> message] ELSE <<>>)

\* faulty variant: current is brought into 0..progress_max before it is used
update_progress_clamps(n, cfg, current, title, message, raises) ==
    LET clamped == IF current < 0 THEN 0
                   ELSE IF current > cfg.progress_max THEN cfg.progress_max ELSE current
    IN IF NotSent(n)
       THEN [cfg |-> cfg, outcome |-> ErrNotSent, calls |-> <<>>]
       ELSE IF cfg.style # PROGRESS
       THEN [cfg |-> cfg, outcome |-> ErrWrongStyle, calls |-> <<>>]
       ELSE [cfg |-> [cfg EXCEPT !.progress_current = clamped,
                                 !.title = IF Truthy(title) THEN title ELSE @,
                                 !.message = IF Truthy(message) THEN message ELSE @],
             outcome |-> IF raises THEN ErrBackend ELSE Returned,
             calls |-> <<[call |-> "updateProgressBar",
                          kwargs |-> UpdateProgressKwargs(clamped, title, message),
                          raised |-> raises]>>]

\* faulty variant: progress_current is stored before the style is checked
update_progress_stores_first(n, cfg, current, title, message, raises) ==
    IF NotSent(n)
    THEN [cfg |-> cfg, outcome |-> ErrNotSent, calls |-> <<>>]
    ELSE IF cfg.style # PROGRESS
    THEN [cfg |-> [cfg EXCEPT !.progress_current = current],
          outcome |-> ErrWrongStyle, calls |-> <<>>]
    ELSE [cfg |-> [cfg EXCEPT !.progress_current = current,
                              !.title = IF Truthy(title) THEN title ELSE @,
                              !.message = IF Truthy(message) THEN message ELSE @],
          outcome |-> IF raises THEN ErrBackend ELSE Returned,
          calls |-> <<[call |-> "updateProgressBar",
                       kwargs |-> UpdateProgressKwargs(current, title, message),
                       raised |-> raises]>>]

update_progress(n, cfg, current, title, message, raises) ==
    IF NotSent(n)
    THEN [cfg |-> cfg, outcome |-> ErrNotSent, calls |-> <<>>]
    ELSE IF cfg.style # PROGRESS
    THEN [cfg |-> cfg, outcome |-> ErrWrongStyle, calls |-> <<>>]
    ELSE [cfg |-> [cfg EXCEPT !.progress_current = current,
                              !.title = IF Truthy(title) THEN title ELSE @,
                              !.message = IF Truthy(message) THEN message ELSE @],
          outcome |-> IF raises THEN ErrBackend ELSE Returned,
          calls |-> <<[call |-> "updateProgressBar",
                       kwargs |-> UpdateProgressKwargs(current, title, message),
                       raised |-> raises]>>]

\* The operations that only forward: show_infinite_progress, remove_progress,
\* cancel and refresh.
Forward(n, cfg, call, raises) ==
    IF NotSent(n)
    THEN [cfg |-> cfg, outcome |-> ErrNotSent, calls |-> <<>>]
    ELSE [cfg |-> cfg,
          outcome |-> IF raises THEN ErrBackend ELSE Returned,
          calls |-> <<call @@ [raised |-> raises]>>]

\* faulty variant: switching to the indeterminate bar zeroes the stored progress
show_infinite_progress_resets_stored(n, cfg, raises) ==
    LET r == Forward(n, cfg, [call |-> "showInfiniteProgressBar"], raises)
    IN IF NotSent(n) THEN r
       ELSE [r EXCEPT !.cfg = [cfg EXCEPT !.progress_current = 0, !.progress_max = 0]]

show_infinite_progress(n, cfg, raises) ==
    Forward(n, cfg, [call |-> "showInfiniteProgressBar"], raises)

remove_progress(n, cfg, message, show_briefly, raises) ==
    Forward(n, cfg, [call |-> "removeProgressBar", message |-> message,
                     show_on_update |-> show_briefly], raises)

cancel(n, cfg, raises) == Forward(n, cfg, [call |-> "cancel"], raises)

refresh(n, cfg, raises) == Forward(n, cfg, [call |-> "refresh"], raises)

(***************************************************************************)
(* FletNotify construction: __new__ looks the page up in _instances and    *)
(* __init__ runs on whatever object __new__ returned                       *)
(***************************************************************************)
\* faulty variant: __new__ never finds the page in the table
IsNewPage_always(insts, pg) == TRUE

\* __new__: "page_id not in cls._instances"
IsNewPage(insts, pg) == insts[pg] = 0

\* __init__: the guard that decides whether the body runs
NeedsInit(m, pg) == ~m.initialized \/ m.page_id # pg

\* faulty variant: the platform gate lets every platform through
PlatformOk_always(pg) == TRUE

\* the platform gate of FletNotify.__init__ and FletNotification.__init__
PlatformOk(pg) == platform(pg) = ANDROID

BlankManager == [initialized |-> FALSE, page_id |-> None, page |-> None]

NoArgs == [none |-> TRUE]

Init ==
    /\ instances = [pg \in Pages |-> 0]
    /\ managers = <<>>
    /\ held = {}
    /\ threads = [t \in Threads |-> Idle]
    /\ lists = [l \in ListIds |-> [value |-> <<"l1">>, held_by |-> {}]]
    /\ backendAvail \in BOOLEAN
    /\ configs = <<>>
    /\ builders = <<>>
    /\ notifs = <<>>
    /\ last = [op |-> "start", target |-> 0, args |-> NoArgs, outcome |-> Returned,
               calls |-> <<>>]

\* FletNotify(page)
FletNotify(pg) ==
    LET fresh == IsNewPage(instances, pg)
        obj == IF fresh THEN Len(managers) + 1 ELSE instances[pg]
        created == IF fresh THEN Append(managers, BlankManager) ELSE managers
        runs == NeedsInit(created[obj], pg)
        raises == runs /\ ~PlatformOk(pg)
    IN /\ instances' = [instances EXCEPT ![pg] = obj]
       /\ managers' = IF runs
                      THEN [created EXCEPT ![obj] =
                                [initialized |-> TRUE, page_id |-> pg, page |-> pg]]
                      ELSE created
       /\ held' = IF raises THEN held ELSE held \cup {<<pg, obj>>}
       /\ last' = [op |-> "FletNotify", target |-> obj, args |-> [page |-> pg],
                   outcome |-> IF raises THEN ErrPlatform ELSE Returned, calls |-> <<>>]
       /\ UNCHANGED <<threads, lists, backendAvail, configs, builders, notifs>>

(***************************************************************************)
(* FletNotify.check_permission as a function of what the platform answers:  *)
(* env.jnius (whether "from jnius import autoclass" succeeds), env.activity  *)
(* (MAIN_ACTIVITY_HOST_CLASS_NAME), env.fail (the platform call that throws),*)
(* env.sdk (Build.VERSION.SDK_INT), env.check (checkSelfPermission's result) *)
(***************************************************************************)
PermissionSdk == 33

ReturnedValue(v) == [type |-> "return", msg |-> "", value |-> v]

\* faulty variant: the version gate starts one release late
check_permission_gate_above(env) ==
    IF ~env.jnius \/ ~Truthy(env.activity)
    THEN [outcome |-> ReturnedValue(FALSE), calls |-> <<>>]
    ELSE IF env.fail = "autoclass"
    THEN [outcome |-> ReturnedValue(FALSE),
          calls |-> <<[call |-> "autoclass", raised |-> TRUE]>>]
    ELSE IF env.sdk > PermissionSdk
    THEN [outcome |-> ReturnedValue(env.fail # "check" /\ env.check = "PERMISSION_GRANTED"),
          calls |-> <<[call |-> "autoclass", raised |-> FALSE],
                      [call |-> "checkSelfPermission", raised |-> (env.fail = "check")]>>]
    ELSE [outcome |-> ReturnedValue(TRUE),
          calls |-> <<[call |-> "autoclass", raised |-> FALSE]>>]

check_permission(env) ==
    IF ~env.jnius \/ ~Truthy(env.activity)
    THEN [outcome |-> ReturnedValue(FALSE), calls |-> <<>>]
    ELSE IF env.fail = "autoclass"
    THEN [outcome |-> ReturnedValue(FALSE),
          calls |-> <<[call |-> "autoclass", raised |-> TRUE]>>]
    ELSE IF env.sdk >= PermissionSdk
    THEN [outcome |-> ReturnedValue(env.fail # "check" /\ env.check = "PERMISSION_GRANTED"),
          calls |-> <<[call |-> "autoclass", raised |-> FALSE],
                      [call |-> "checkSelfPermission", raised |-> (env.fail = "check")]>>]
    ELSE [outcome |-> ReturnedValue(TRUE),
          calls |-> <<[call |-> "autoclass", raised |-> FALSE]>>]

(***************************************************************************)
(* FletNotify.request_permission over the same platform answers; env.fail   *)
(* may also name the requestPermissions call                                *)
(***************************************************************************)
ErrPermissionFailed ==
    [type |-> "PermissionDeniedException", msg |-> "Falha ao solicitar permissao"]

\* faulty variant: the dialog is requested on every Android version
request_permission_prompts_always(env) ==
    IF ~env.jnius \/ ~Truthy(env.activity)
    THEN [outcome |-> ErrPermissionFailed, calls |-> <<>>]
    ELSE IF env.fail = "autoclass"
    THEN [outcome |-> ErrPermissionFailed,
          calls |-> <<[call |-> "autoclass", raised |-> TRUE]>>]
    ELSE [outcome |-> IF env.fail = "request" THEN ErrPermissionFailed
                      ELSE ReturnedValue(TRUE),
          calls |-> <<[call |-> "autoclass", raised |-> FALSE],
                      [call |-> "requestPermissions", code |-> 101,
                       raised |-> (env.fail = "request")]>>]

request_permission(env) ==
    IF ~env.jnius \/ ~Truthy(env.activity)
    THEN [outcome |-> ErrPermissionFailed, calls |-> <<>>]
    ELSE IF env.fail = "autoclass"
    THEN [outcome |-> ErrPermissionFailed,
          calls |-> <<[call |-> "autoclass", raised |-> TRUE]>>]
    ELSE IF env.sdk >= PermissionSdk
    THEN [outcome |-> IF env.fail = "request" THEN ErrPermissionFailed
                      ELSE ReturnedValue(TRUE),
          calls |-> <<[call |-> "autoclass", raised |-> FALSE],
                      [call |-> "requestPermissions", code |-> 101,
                       raised |-> (env.fail = "request")]>>]
    ELSE [outcome |-> ReturnedValue(TRUE),
          calls |-> <<[call |-> "autoclass", raised |-> FALSE]>>]

(***************************************************************************)
(* The static notification operations of FletNotify: cancel_all and        *)
(* get_opened_notification. Only the import failure is caught and          *)
(* re-raised; what the backend raises reaches the caller as it is          *)
(***************************************************************************)
\* faulty variant: the tray is never asked to cancel
cancel_all_skips_backend(raises, avail) ==
    IF ~avail
    THEN [outcome |-> ErrNotAvailable, calls |-> <<>>]
    ELSE [outcome |-> Returned, calls |-> <<>>]

cancel_all(raises, avail) ==
    IF ~avail
    THEN [outcome |-> ErrNotAvailable, calls |-> <<>>]
    ELSE [outcome |-> IF raises THEN ErrBackend ELSE Returned,
          calls |-> <<[call |-> "cancelAll", raised |-> raises]>>]

\* name is what NotificationHandler.get_name() answers
get_opened_notification(name, raises, avail) ==
    IF ~avail
    THEN [outcome |-> ErrNotAvailable, calls |-> <<>>]
    ELSE [outcome |-> IF raises THEN ErrBackend ELSE ReturnedValue(name),
          calls |-> <<[call |-> "get_name", raised |-> raises]>>]

(***************************************************************************)
(* The static channel operations of FletNotify; raises says whether the     *)
(* backend call throws, avail whether android_notify can be imported        *)
(***************************************************************************)
ErrChannelFailed == [type |-> "FletNotifyException", msg |-> "Falha ao criar canal"]

create_channel(channel_id, channel_name, description, importance, raises, avail) ==
    IF ~avail
    THEN [outcome |-> ErrNotAvailable, calls |-> <<>>]
    ELSE [outcome |-> IF raises THEN ErrChannelFailed ELSE Returned,
          calls |-> <<[call |-> "createChannel", id |-> channel_id, name |-> channel_name,
                       description |-> description, importance |-> importance,
                       raised |-> raises]>>]

delete_channel(channel_id, raises, avail) ==
    IF ~avail
    THEN [outcome |-> ErrNotAvailable, calls |-> <<>>]
    ELSE [outcome |-> IF raises THEN ErrBackend ELSE Returned,
          calls |-> <<[call |-> "deleteChannel", id |-> channel_id, raised |-> raises]>>]

delete_all_channels(raises, avail) ==
    IF ~avail
    THEN [outcome |-> ErrNotAvailable, calls |-> <<>>]
    ELSE [outcome |-> IF raises THEN ErrBackend ELSE Returned,
          calls |-> <<[call |-> "deleteAllChannel", raised |-> raises]>>]

\* a call that touches nothing of the core's own state
StaticStep(op, args, r) ==
    /\ last' = [op |-> op, target |-> 0, args |-> args, outcome |-> r.outcome,
                calls |-> r.calls]
    /\ UNCHANGED <<instances, managers, held, threads, lists, backendAvail, configs, builders,
                   notifs>>

CreateChannel(channel_id, channel_name, description, importance, raises) ==
    StaticStep("create_channel",
               [channel_id |-> channel_id, channel_name |-> channel_name,
                description |-> description, importance |-> importance],
               create_channel(channel_id, channel_name, description, importance, raises,
                              backendAvail))

DeleteChannel(channel_id, raises) ==
    StaticStep("delete_channel", [channel_id |-> channel_id],
               delete_channel(channel_id, raises, backendAvail))

DeleteAllChannels(raises) ==
    StaticStep("delete_all_channels", NoArgs, delete_all_channels(raises, backendAvail))

\* check_permission on a manager the caller holds
CheckPermission(ref, env) ==
    /\ ref \in held
    /\ LET r == check_permission(env)
       IN last' = [op |-> "check_permission", target |-> ref[2], args |-> env,
                   outcome |-> r.outcome, calls |-> r.calls]
    /\ UNCHANGED <<instances, managers, held, threads, lists, backendAvail, configs, builders,
                   notifs>>

\* request_permission on a manager the caller holds
RequestPermission(ref, env) ==
    /\ ref \in held
    /\ LET r == request_permission(env)
       IN last' = [op |-> "request_permission", target |-> ref[2], args |-> env,
                   outcome |-> r.outcome, calls |-> r.calls]
    /\ UNCHANGED <<instances, managers, held, threads, lists, backendAvail, configs, builders,
                   notifs>>

\* cancel_all and get_opened_notification are static: no manager, builder or
\* instance is read or written
CancelAll(raises) ==
    StaticStep("cancel_all", NoArgs, cancel_all(raises, backendAvail))

GetOpenedNotification(name, raises) ==
    StaticStep("get_opened_notification", NoArgs,
               get_opened_notification(name, raises, backendAvail))

(***************************************************************************)
(* FletNotify(page) called from several threads: __new__ taken statement by *)
(* statement, with no lock around the check and the insertion               *)
(***************************************************************************)
ThreadStep(t, rec) ==
    /\ threads' = [threads EXCEPT ![t] = rec]
    /\ last' = [op |-> "__new__", target |-> rec.obj, args |-> [page |-> rec.page],
                outcome |-> Returned, calls |-> <<>>]
    /\ UNCHANGED <<lists, backendAvail, configs, builders, notifs>>

\* thread t calls FletNotify(pg): page_id = id(page)
NewCall(t, pg) ==
    /\ threads[t].pc = "idle"
    /\ ThreadStep(t, [pc |-> "check", page |-> pg, obj |-> 0])
    /\ UNCHANGED <<instances, managers, held>>

\* "if page_id not in cls._instances"
NewCheck(t) ==
    /\ threads[t].pc = "check"
    /\ ThreadStep(t, [threads[t] EXCEPT
                        !.pc = IF IsNewPage(instances, threads[t].page) THEN "insert"
                               ELSE "return"])
    /\ UNCHANGED <<instances, managers, held>>

\* "instance = super().__new__(cls); cls._instances[page_id] = instance"
NewInsert(t) ==
    /\ threads[t].pc = "insert"
    /\ managers' = Append(managers, BlankManager)
    /\ instances' = [instances EXCEPT ![threads[t].page] = Len(managers) + 1]
    /\ ThreadStep(t, [threads[t] EXCEPT !.pc = "return"])
    /\ UNCHANGED held

\* "return cls._instances[page_id]"
NewReturn(t) ==
    /\ threads[t].pc = "return"
    /\ ThreadStep(t, [threads[t] EXCEPT !.pc = "init", !.obj = instances[threads[t].page]])
    /\ UNCHANGED <<instances, managers, held>>

\* __init__ on the object __new__ returned; the caller then holds the object
\* unless __init__ raised
InitCall(t) ==
    /\ threads[t].pc = "init"
    /\ LET pg == threads[t].page
           obj == threads[t].obj
           runs == NeedsInit(managers[obj], pg)
           raises == runs /\ ~PlatformOk(pg)
       IN /\ managers' = IF runs
                         THEN [managers EXCEPT ![obj] =
                                  [initialized |-> TRUE, page_id |-> pg, page |-> pg]]
                         ELSE managers
          /\ held' = IF raises THEN held ELSE held \cup {<<pg, obj>>}
          /\ last' = [op |-> "FletNotify", target |-> obj, args |-> [page |-> pg],
                      outcome |-> IF raises THEN ErrPlatform ELSE Returned,
                      calls |-> <<>>]
    /\ threads' = [threads EXCEPT ![t] = Idle]
    /\ UNCHANGED <<instances, lists, backendAvail, configs, builders, notifs>>

\* FletNotify.create on a manager the caller holds
Create(ref, title, message, channel_id, channel_name, importance, notification_id) ==
    /\ ref \in held
    /\ Len(builders) < MaxBuilders
    /\ configs' = Append(configs, NotificationConfig(title, message, channel_id,
                                                      channel_name, importance,
                                                      notification_id))
    /\ builders' = Append(builders, [page |-> managers[ref[2]].page,
                                     config |-> Len(configs) + 1])
    /\ last' = [op |-> "create", target |-> Len(builders) + 1,
                args |-> [title |-> title, message |-> message], outcome |-> Returned,
                calls |-> <<>>]
    /\ UNCHANGED <<instances, managers, held, threads, lists, backendAvail, notifs>>

(***************************************************************************)
(* NotificationBuilder calls on builder b                                  *)
(***************************************************************************)
BuilderIds == 1..Len(builders)
NotifIds == 1..Len(notifs)
Cfg(b) == configs[builders[b].config]
NCfg(n) == configs[notifs[n].config]

BuilderStep(b, op, args, cfg, outcome) ==
    /\ configs' = [configs EXCEPT ![builders[b].config] = cfg]
    /\ last' = [op |-> op, target |-> b, args |-> args, outcome |-> outcome, calls |-> <<>>]
    /\ UNCHANGED <<instances, managers, held, threads, lists, backendAvail, builders, notifs>>

SetIcon(b, path) ==
    BuilderStep(b, "set_icon", [path |-> path], set_icon(Cfg(b), path), Returned)

AddButton(b, btn) ==
    IF add_button_raises(Cfg(b))
    THEN BuilderStep(b, "add_button", btn, Cfg(b), ErrTooManyButtons)
    ELSE BuilderStep(b, "add_button", btn, add_button(Cfg(b), btn.text, btn.callback),
                     Returned)

WithProgress(b, p) ==
    BuilderStep(b, "with_progress", p, with_progress(Cfg(b), p.current, p.max_value),
                Returned)

SetLargeIcon(b, path) ==
    BuilderStep(b, "set_large_icon", [path |-> path], set_large_icon(Cfg(b), path), Returned)

SetBigPicture(b, path) ==
    BuilderStep(b, "set_big_picture", [path |-> path], set_big_picture(Cfg(b), path),
                Returned)

SetBigText(b, body) ==
    BuilderStep(b, "set_big_text", [body |-> body], set_big_text(Cfg(b), body), Returned)

\* the caller's list that config c has as its inbox_lines, if any
ListOf(c) == {l \in ListIds : c \in lists[l].held_by}

\* config c's inbox_lines becomes another list object
Unshare(c) == [l \in ListIds |-> [lists[l] EXCEPT !.held_by = @ \ {c}]]

LinesStep(b, op, args, newConfigs, newLists) ==
    /\ configs' = newConfigs
    /\ lists' = newLists
    /\ last' = [op |-> op, target |-> b, args |-> args, outcome |-> Returned,
                calls |-> <<>>]
    /\ UNCHANGED <<instances, managers, held, threads, backendAvail, builders, notifs>>

\* add_line appends to the list object in place: every config holding that
\* object sees the new line, and so does the caller's list
AddLine(b, text) ==
    /\ Len(Cfg(b).inbox_lines) < MaxLines
    /\ LET c == builders[b].config
           sharing == UNION {lists[l].held_by : l \in ListOf(c)}
       IN LinesStep(b, "add_line", [text |-> text],
                    [i \in 1..Len(configs) |->
                        IF i = c THEN add_line(configs[i], text)
                        ELSE IF i \in sharing
                        THEN [configs[i] EXCEPT !.inbox_lines = Append(@, text)]
                        ELSE configs[i]],
                    [l \in ListIds |->
                        IF l \in ListOf(c)
                        THEN [lists[l] EXCEPT !.value = Append(@, text)]
                        ELSE lists[l]])

\* set_lines with a list written at the call: no one else holds it
SetLines(b, lines) ==
    LinesStep(b, "set_lines", [lines |-> lines],
              [configs EXCEPT ![builders[b].config] = set_lines(@, lines)],
              Unshare(builders[b].config))

\* set_lines with a list object the caller keeps: "self.config.inbox_lines = lines"
\* stores the object itself
SetLinesOf(b, l) ==
    LinesStep(b, "set_lines", [lines |-> lists[l].value],
              [configs EXCEPT ![builders[b].config] = set_lines(@, lists[l].value)],
              [Unshare(builders[b].config) EXCEPT ![l].held_by = @ \cup {builders[b].config}])

\* NotificationBuilder.send: FletNotification(self.page, self.config).send(...).
\* The new instance reaches the caller only if both the constructor and send return.
BuilderSend(b, opts, fail) ==
    /\ Len(notifs) < MaxNotifs
    /\ LET n0 == NewFletNotification(builders[b].page, builders[b].config)
           r == send(n0, Cfg(b), opts, fail, backendAvail)
           gate == PlatformOk(builders[b].page)
       IN /\ notifs' = IF gate /\ r.outcome = Returned THEN Append(notifs, r.notif)
                       ELSE notifs
          /\ last' = [op |-> "builder_send", target |-> b, args |-> opts,
                      outcome |-> IF gate THEN r.outcome ELSE ErrPlatform,
                      calls |-> IF gate THEN r.calls ELSE <<>>]
    /\ UNCHANGED <<instances, managers, held, threads, lists, backendAvail, configs, builders>>

\* faulty variant: silent and persistent are handed on in the wrong order
ManagerSendOpts_swapped(silent, persistent) ==
    [silent |-> persistent, persistent |-> silent, close_on_click |-> TRUE]

\* the options FletNotify.send hands to the builder's send
ManagerSendOpts(silent, persistent) ==
    [silent |-> silent, persistent |-> persistent, close_on_click |-> TRUE]

\* FletNotify.send: self.create(title, message, channel_id).send(silent, persistent).
\* The builder is never seen by the caller; the new config lives on in the
\* instance when one is returned.
ManagerSend(ref, title, message, channel_id, silent, persistent, fail) ==
    /\ ref \in held
    /\ Len(notifs) < MaxNotifs
    /\ LET page == managers[ref[2]].page
           cfg == NotificationConfig(title, message, channel_id, "Padrao", URGENT, None)
           opts == ManagerSendOpts(silent, persistent)
           r == send(NewFletNotification(page, Len(configs) + 1), cfg, opts, fail,
                     backendAvail)
           ok == PlatformOk(page) /\ r.outcome = Returned
       IN /\ configs' = IF ok THEN Append(configs, cfg) ELSE configs
          /\ notifs' = IF ok THEN Append(notifs, r.notif) ELSE notifs
          /\ last' = [op |-> "manager_send", target |-> ref[2],
                      args |-> [title |-> title, message |-> message,
                                channel_id |-> channel_id, silent |-> silent,
                                persistent |-> persistent],
                      outcome |-> IF PlatformOk(page) THEN r.outcome ELSE ErrPlatform,
                      calls |-> IF PlatformOk(page) THEN r.calls ELSE <<>>]
    /\ UNCHANGED <<instances, managers, held, threads, lists, backendAvail, builders>>

(***************************************************************************)
(* FletNotification calls on instance n                                    *)
(***************************************************************************)
\* FletNotification(page, config) called directly, with a builder's page and config
NewNotification(b) ==
    /\ Len(notifs) < MaxNotifs
    /\ notifs' = IF PlatformOk(builders[b].page)
                 THEN Append(notifs, NewFletNotification(builders[b].page,
                                                          builders[b].config))
                 ELSE notifs
    /\ last' = [op |-> "FletNotification", target |-> b, args |-> NoArgs,
                outcome |-> IF PlatformOk(builders[b].page) THEN Returned ELSE ErrPlatform,
                calls |-> <<>>]
    /\ UNCHANGED <<instances, managers, held, threads, lists, backendAvail, configs, builders>>

\* FletNotification.send on an instance the caller holds
NotifSend(n, opts, fail) ==
    LET r == send(notifs[n], NCfg(n), opts, fail, backendAvail)
    IN /\ notifs' = [notifs EXCEPT ![n] = r.notif]
       /\ last' = [op |-> "send", target |-> n, args |-> opts, outcome |-> r.outcome,
                   calls |-> r.calls]
       /\ UNCHANGED <<instances, managers, held, threads, lists, backendAvail, configs, builders>>

NotifStep(n, op, args, r) ==
    /\ configs' = [configs EXCEPT ![notifs[n].config] = r.cfg]
    /\ last' = [op |-> op, target |-> n, args |-> args, outcome |-> r.outcome,
                calls |-> r.calls]
    /\ UNCHANGED <<instances, managers, held, threads, lists, backendAvail, builders>>

UpdateTitle(n, new_title, raises) ==
    /\ NotifStep(n, "update_title", [new_title |-> new_title],
                 update_title(notifs[n], NCfg(n), new_title, raises))
    /\ UNCHANGED notifs

UpdateMessage(n, new_message, raises) ==
    /\ NotifStep(n, "update_message", [new_message |-> new_message],
                 update_message(notifs[n], NCfg(n), new_message, raises))
    /\ UNCHANGED notifs

UpdateProgress(n, current, title, message, raises) ==
    /\ NotifStep(n, "update_progress",
                 [current |-> current, title |-> title, message |-> message],
                 update_progress(notifs[n], NCfg(n), current, title, message, raises))
    /\ UNCHANGED notifs

ShowInfiniteProgress(n, raises) ==
    /\ NotifStep(n, "show_infinite_progress", NoArgs,
                 show_infinite_progress(notifs[n], NCfg(n), raises))
    /\ UNCHANGED notifs

RemoveProgress(n, message, show_briefly, raises) ==
    /\ NotifStep(n, "remove_progress", [message |-> message, show_briefly |-> show_briefly],
                 remove_progress(notifs[n], NCfg(n), message, show_briefly, raises))
    /\ UNCHANGED notifs

\* cancels counts the cancel calls the backend accepted for this instance
Cancel(n, raises) ==
    LET r == cancel(notifs[n], NCfg(n), raises)
    IN /\ notifs[n].cancels < MaxCancels
       /\ NotifStep(n, "cancel", NoArgs, r)
       /\ notifs' = [notifs EXCEPT ![n].cancels =
                        IF r.outcome = Returned THEN @ + 1 ELSE @]

Refresh(n, raises) ==
    /\ NotifStep(n, "refresh", NoArgs, refresh(notifs[n], NCfg(n), raises))
    /\ UNCHANGED notifs

(***************************************************************************)
(* Specifications                                                          *)
(***************************************************************************)
DefaultOpts == [silent |-> FALSE, persistent |-> FALSE, close_on_click |-> TRUE]
SendOpts == {DefaultOpts, [silent |-> TRUE, persistent |-> TRUE, close_on_click |-> FALSE]}

CreateDefault(ref, title, message) ==
    Create(ref, title, message, "default", "Padrao", URGENT, None)

\* The life of a single builder: create is called once.
CreateOne(ref, title, message) ==
    /\ builders = <<>>
    /\ CreateDefault(ref, title, message)

\* Manager construction over every page.
NextManager ==
    \/ \E pg \in Pages : FletNotify(pg)
    \/ \E ref \in held, t \in Titles, m \in Messages : CreateDefault(ref, t, m)

SpecManager == Init /\ [][NextManager]_vars

\* One page; the style-affecting builder calls and send.
NextStyle ==
    \/ FletNotify("pageA")
    \/ \E ref \in held, t \in Titles, m \in Messages : CreateOne(ref, t, m)
    \/ \E b \in BuilderIds, p \in ProgressInputs : WithProgress(b, p)
    \/ \E b \in BuilderIds, path \in Paths : SetLargeIcon(b, path)
    \/ \E b \in BuilderIds, path \in Paths : SetBigPicture(b, path)
    \/ \E b \in BuilderIds, body \in Bodies : SetBigText(b, body)
    \/ \E b \in BuilderIds, text \in LineTexts : AddLine(b, text)
    \/ \E b \in BuilderIds, lines \in SeqsUpTo(LineTexts, MaxLines) : SetLines(b, lines)
    \/ \E b \in BuilderIds : \E fail \in FailPoints(Cfg(b)) :
            BuilderSend(b, DefaultOpts, fail)

SpecStyle == Init /\ [][NextStyle]_vars

\* One page and one builder; buttons, icon and send with every failure point.
NextButtons ==
    \/ FletNotify("pageA")
    \/ \E ref \in held, t \in Titles, m \in Messages : CreateOne(ref, t, m)
    \/ \E b \in BuilderIds, btn \in ButtonInputs : AddButton(b, btn)
    \/ \E b \in BuilderIds : SetIcon(b, "icon.png")
    \/ \E b \in BuilderIds, opts \in SendOpts : \E fail \in FailPoints(Cfg(b)) :
            BuilderSend(b, opts, fail)

SpecButtons == Init /\ [][NextButtons]_vars

\* One page and one builder; instances made from it and their post-send calls.
NextInstance ==
    \/ FletNotify("pageA")
    \/ \E ref \in held, t \in Titles, m \in Messages : CreateOne(ref, t, m)
    \/ \E b \in BuilderIds : WithProgress(b, [current |-> 0, max_value |-> 100])
    \/ \E b \in BuilderIds : SetBigText(b, "body")
    \/ \E b \in BuilderIds : NewNotification(b)
    \/ \E b \in BuilderIds : \E fail \in FailPoints(Cfg(b)) :
            BuilderSend(b, DefaultOpts, fail)
    \/ \E n \in NotifIds : \E fail \in FailPoints(NCfg(n)) : NotifSend(n, DefaultOpts, fail)
    \/ \E n \in NotifIds, t \in NewTexts, raises \in BOOLEAN : UpdateTitle(n, t, raises)
    \/ \E n \in NotifIds, m \in NewTexts, raises \in BOOLEAN : UpdateMessage(n, m, raises)
    \/ \E n \in NotifIds, u \in ProgressUpdates, raises \in BOOLEAN :
            UpdateProgress(n, u.current, u.title, u.message, raises)
    \/ \E n \in NotifIds, raises \in BOOLEAN : ShowInfiniteProgress(n, raises)
    \/ \E n \in NotifIds, raises \in BOOLEAN : RemoveProgress(n, "done", TRUE, raises)
    \/ \E n \in NotifIds, raises \in BOOLEAN : Cancel(n, raises)
    \/ \E n \in NotifIds, raises \in BOOLEAN : Refresh(n, raises)

SpecInstance == Init /\ [][NextInstance]_vars

\* A supported and an unsupported page; builders and sends on either.
NextGate ==
    \/ \E pg \in {"pageA", "pageIos"} : FletNotify(pg)
    \/ \E ref \in held, t \in Titles, m \in Messages : CreateOne(ref, t, m)
    \/ \E b \in BuilderIds, btn \in ButtonInputs : AddButton(b, btn)
    \/ \E b \in BuilderIds : SetBigText(b, "body")
    \/ \E b \in BuilderIds : \E fail \in FailPoints(Cfg(b)) :
            BuilderSend(b, DefaultOpts, fail)
    \/ \E ref \in held, t \in Titles, m \in Messages, silent \in BOOLEAN,
          fail \in FailPoints(NotificationConfig("", "", "", "", "", "")) :
            ManagerSend(ref, t, m, "default", silent, FALSE, fail)

SpecGate == Init /\ [][NextGate]_vars

\* Configs with and without title, message and style payload, sent three ways.
NextPayload ==
    \/ FletNotify("pageA")
    \/ \E ref \in held, t \in {"", "T"}, m \in {"", "M"} : CreateOne(ref, t, m)
    \/ \E b \in BuilderIds, body \in Bodies : SetBigText(b, body)
    \/ \E b \in BuilderIds, path \in {"", "p1"} : SetLargeIcon(b, path)
    \/ \E b \in BuilderIds, path \in {"", "p1"} : SetBigPicture(b, path)
    \/ \E b \in BuilderIds, lines \in SeqsUpTo(LineTexts, 1) : SetLines(b, lines)
    \/ \E b \in BuilderIds : NewNotification(b)
    \/ \E b \in BuilderIds : \E fail \in FailPoints(Cfg(b)) :
            BuilderSend(b, DefaultOpts, fail)
    \/ \E n \in NotifIds : \E fail \in FailPoints(NCfg(n)) : NotifSend(n, DefaultOpts, fail)
    \/ \E ref \in held, t \in {"", "T"}, m \in {"", "M"} :
            ManagerSend(ref, t, m, "default", FALSE, FALSE, [at |-> "none", k |-> 0])

SpecPayload == Init /\ [][NextPayload]_vars

\* One page; a builder with buttons, sent through the builder, through an
\* instance the caller constructs, and through the manager.
NextSend ==
    \/ FletNotify("pageA")
    \/ \E ref \in held, t \in Titles, m \in Messages : CreateOne(ref, t, m)
    \/ \E b \in BuilderIds, btn \in ButtonInputs : AddButton(b, btn)
    \/ \E b \in BuilderIds : NewNotification(b)
    \/ \E b \in BuilderIds : \E fail \in FailPoints(Cfg(b)) :
            BuilderSend(b, DefaultOpts, fail)
    \/ \E n \in NotifIds : \E fail \in FailPoints(NCfg(n)) : NotifSend(n, DefaultOpts, fail)
    \/ \E ref \in held, t \in Titles, m \in Messages :
       \E fail \in FailPoints(NotificationConfig(t, m, "default", "Padrao", URGENT, None)) :
            ManagerSend(ref, t, m, "default", FALSE, FALSE, fail)

SpecSend == Init /\ [][NextSend]_vars

\* Two threads constructing managers for two pages, interleaved at statement level.
NextThreads ==
    \/ \E t \in Threads, pg \in {"pageA", "pageB"} : NewCall(t, pg)
    \/ \E t \in Threads : NewCheck(t)
    \/ \E t \in Threads : NewInsert(t)
    \/ \E t \in Threads : NewReturn(t)
    \/ \E t \in Threads : InitCall(t)

SpecThreads == Init /\ [][NextThreads]_vars

\* Managers on a supported and an unsupported page, and the calls that go to
\* the platform rather than to a notification: channels and permission.
ChannelIds == {"default", "alerts"}
ChannelNames == {"Padrao", "Alerts"}
Descriptions == {"", "urgent alerts"}

\* what the platform may answer to the permission probe
ProbeEnvs ==
    [jnius : BOOLEAN,
     activity : {None, "", "org.flet.MainActivity"},
     fail : {"none", "autoclass", "check"},
     sdk : {32, 33, 34},
     check : {"PERMISSION_GRANTED", "PERMISSION_DENIED"}]

\* what the platform may answer to the permission request
RequestEnvs ==
    [jnius : BOOLEAN,
     activity : {None, "", "org.flet.MainActivity"},
     fail : {"none", "autoclass", "request"},
     sdk : {32, 33, 34}]

NextPlatformCalls ==
    \/ \E pg \in {"pageA", "pageIos"} : FletNotify(pg)
    \/ \E id \in ChannelIds, name \in ChannelNames, d \in Descriptions, raises \in BOOLEAN :
            CreateChannel(id, name, d, URGENT, raises)
    \/ \E id \in ChannelIds, raises \in BOOLEAN : DeleteChannel(id, raises)
    \/ \E raises \in BOOLEAN : DeleteAllChannels(raises)
    \/ \E ref \in held, env \in ProbeEnvs : CheckPermission(ref, env)
    \/ \E ref \in held, env \in RequestEnvs : RequestPermission(ref, env)

SpecPlatformCalls == Init /\ [][NextPlatformCalls]_vars

\* Two builders from one manager, each taking builder calls; a list the caller
\* keeps may be given to set_lines of either.
NextBuilders ==
    \/ FletNotify("pageA")
    \/ \E ref \in held, t \in Titles, m \in Messages : CreateDefault(ref, t, m)
    \/ \E b \in BuilderIds : AddButton(b, [text |-> "Yes", callback |-> "on_yes"])
    \/ \E b \in BuilderIds : SetBigText(b, "body")
    \/ \E b \in BuilderIds : AddLine(b, "l2")
    \/ \E b \in BuilderIds : SetLines(b, <<>>)
    \/ \E b \in BuilderIds, l \in ListIds : SetLinesOf(b, l)

SpecBuilders == Init /\ [][NextBuilders]_vars

\* One builder taking every kind of builder call.
NextSetters ==
    \/ FletNotify("pageA")
    \/ \E ref \in held, t \in Titles, m \in Messages : CreateOne(ref, t, m)
    \/ \E b \in BuilderIds : SetIcon(b, "icon.png")
    \/ \E b \in BuilderIds : AddButton(b, [text |-> "Yes", callback |-> "on_yes"])
    \/ \E b \in BuilderIds : WithProgress(b, [current |-> 5, max_value |-> 10])
    \/ \E b \in BuilderIds, path \in {"", "p1"} : SetLargeIcon(b, path)
    \/ \E b \in BuilderIds, path \in {"", "p2"} : SetBigPicture(b, path)
    \/ \E b \in BuilderIds : SetBigText(b, "body")
    \/ \E b \in BuilderIds : AddLine(b, "l1")
    \/ \E b \in BuilderIds : SetLines(b, <<>>)

SpecSetters == Init /\ [][NextSetters]_vars

\* what NotificationHandler.get_name() may answer
OpenedNames == {None, "msg_1"}

\* One page, one progress builder; the instance its send returns is sent
\* again, updated and cancelled, with the backend failing anywhere, and the
\* tray-wide calls in between.
NextLifecycle ==
    \/ FletNotify("pageA")
    \/ \E ref \in held, t \in Titles, m \in Messages : CreateOne(ref, t, m)
    \/ \E b \in BuilderIds : WithProgress(b, [current |-> 0, max_value |-> 100])
    \/ \E b \in BuilderIds : \E fail \in FailPoints(Cfg(b)) :
            BuilderSend(b, DefaultOpts, fail)
    \/ \E n \in NotifIds : \E fail \in FailPoints(NCfg(n)) : NotifSend(n, DefaultOpts, fail)
    \/ \E n \in NotifIds, t \in NewTexts, raises \in BOOLEAN : UpdateTitle(n, t, raises)
    \/ \E n \in NotifIds, m \in NewTexts, raises \in BOOLEAN : UpdateMessage(n, m, raises)
    \/ \E n \in NotifIds, u \in ProgressUpdates, raises \in BOOLEAN :
            UpdateProgress(n, u.current, u.title, u.message, raises)
    \/ \E n \in NotifIds, raises \in BOOLEAN : ShowInfiniteProgress(n, raises)
    \/ \E n \in NotifIds, raises \in BOOLEAN : RemoveProgress(n, "done", TRUE, raises)
    \/ \E n \in NotifIds, raises \in BOOLEAN : Cancel(n, raises)
    \/ \E n \in NotifIds, raises \in BOOLEAN : Refresh(n, raises)
    \/ \E raises \in BOOLEAN : CancelAll(raises)
    \/ \E name \in OpenedNames, raises \in BOOLEAN : GetOpenedNotification(name, raises)

SpecLifecycle == Init /\ [][NextLifecycle]_vars

\* One builder; the image setters take non-empty paths only, between the
\* other style-switching calls.
NextImages ==
    \/ FletNotify("pageA")
    \/ \E ref \in held, t \in Titles, m \in Messages : CreateOne(ref, t, m)
    \/ \E b \in BuilderIds, path \in Paths \ {""} : SetLargeIcon(b, path)
    \/ \E b \in BuilderIds, path \in Paths \ {""} : SetBigPicture(b, path)
    \/ \E b \in BuilderIds, p \in ProgressInputs : WithProgress(b, p)
    \/ \E b \in BuilderIds : SetBigText(b, "body")
    \/ \E b \in BuilderIds : AddLine(b, "l1")
    \/ \E b \in BuilderIds : SetLines(b, <<>>)

SpecImages == Init /\ [][NextImages]_vars

(***************************************************************************)
(* Properties                                                              *)
(***************************************************************************)
StyleOps == {"with_progress", "add_line", "set_lines", "set_big_text",
             "set_large_icon", "set_big_picture"}

\* The style the derivation rule gives for a call on a builder whose config
\* was `before`.  A path counts as set when it is a non-empty string.
DerivedStyle(op, before) ==
    CASE op = "with_progress" -> PROGRESS
      [] op \in {"add_line", "set_lines"} -> INBOX
      [] op = "set_big_text" -> BIG_TEXT
      [] op = "set_large_icon" ->
            IF Truthy(before.big_picture_path) THEN BOTH_IMAGES ELSE LARGE_ICON
      [] op = "set_big_picture" ->
            IF Truthy(before.large_icon_path) THEN BOTH_IMAGES ELSE BIG_PICTURE

\* C1: every style-affecting builder call leaves the style the derivation rule
\* gives for that call on the state it was applied to, and no other call of
\* the builder's life (create, send) changes the style; so after any sequence
\* the style is the one derived from the last style-affecting call.
C1_StyleFollowsLastCall ==
    [][\A b \in BuilderIds :
          IF last'.op \in StyleOps /\ last'.target = b
          THEN configs'[builders[b].config].style = DerivedStyle(last'.op, Cfg(b))
          ELSE configs'[builders[b].config].style = Cfg(b).style]_vars

\* C1 witness: set_big_text after with_progress(5, 10) left the style big_text.
C1_Witness ==
    /\ last.op = "set_big_text"
    /\ Cfg(last.target).progress_max = 10
    /\ Cfg(last.target).style = BIG_TEXT

\* The config create() made for cfg, before any builder call.
Fresh(cfg) ==
    NotificationConfig(cfg.title, cfg.message, cfg.channel_id, cfg.channel_name,
                       cfg.importance, cfg.notification_id)

\* cfg is a fresh config on which only the two image paths were set, both non-empty.
OnlyImagesSet(cfg) ==
    /\ Truthy(cfg.large_icon_path)
    /\ Truthy(cfg.big_picture_path)
    /\ [cfg EXCEPT !.style = SIMPLE, !.large_icon_path = None, !.big_picture_path = None]
         = Fresh(cfg)

\* C2: on a fresh builder the two image calls with non-empty paths p1, p2, in
\* either order, end in style both_images with both paths stored (the same
\* config both ways), and a send that follows hands large_icon_path = p1 and
\* big_picture_path = p2 to Notification(...).
C2_BothImagesEitherOrder ==
    \A b \in BuilderIds :
        /\ (last.target = b /\ last.op \in {"set_large_icon", "set_big_picture"}
              /\ OnlyImagesSet(Cfg(b)))
           => Cfg(b).style = BOTH_IMAGES
        /\ Cfg(b) = Fresh(Cfg(b)) =>
              \A p1, p2 \in Paths \ {""} :
                  LET lb == set_big_picture(set_large_icon(Cfg(b), p1), p2)
                      bl == set_large_icon(set_big_picture(Cfg(b), p2), p1)
                  IN /\ lb = bl
                     /\ lb.style = BOTH_IMAGES
                     /\ lb.large_icon_path = p1 /\ lb.big_picture_path = p2
                     /\ Kwargs(lb) = Kwargs(bl)
        /\ (last.target = b /\ last.op = "builder_send" /\ OnlyImagesSet(Cfg(b))
              /\ Cfg(b).style = BOTH_IMAGES /\ last.calls # <<>>)
           => /\ "large_icon_path" \in DOMAIN last.calls[1].kwargs
              /\ "big_picture_path" \in DOMAIN last.calls[1].kwargs
              /\ last.calls[1].kwargs.large_icon_path = Cfg(b).large_icon_path
              /\ last.calls[1].kwargs.big_picture_path = Cfg(b).big_picture_path

\* C2 witness: set_large_icon("p1"), set_big_picture("p2") and a send that returned.
C2_Witness ==
    /\ last.op = "builder_send"
    /\ last.outcome = Returned
    /\ OnlyImagesSet(Cfg(last.target))
    /\ Cfg(last.target).style = BOTH_IMAGES
    /\ last.calls[1].kwargs.large_icon_path = "p1"
    /\ last.calls[1].kwargs.big_picture_path = "p2"

\* C3: a builder never holds more than 3 buttons; add_button on a builder that
\* holds 3 fails with the too-many-buttons error and leaves the 3 buttons as
\* they were, and below 3 it appends the new button after the existing ones.
C3_AtMostThreeButtons ==
    /\ [](\A b \in BuilderIds : Len(Cfg(b).buttons) <= 3)
    /\ [][\A b \in BuilderIds :
            (last'.op = "add_button" /\ last'.target = b) =>
                IF Len(Cfg(b).buttons) = 3
                THEN /\ last'.outcome = ErrTooManyButtons
                     /\ configs'[builders[b].config] = Cfg(b)
                ELSE /\ last'.outcome = Returned
                     /\ configs'[builders[b].config].buttons
                          = Append(Cfg(b).buttons, last'.args)]_vars

\* C3 witness: a 4th add_button was refused on a builder holding Yes, No, Yes.
C3_Witness ==
    /\ last.op = "add_button"
    /\ last.outcome = ErrTooManyButtons
    /\ Len(Cfg(last.target).buttons) = 3
    /\ Cfg(last.target).buttons[1].text = "Yes"
    /\ Cfg(last.target).buttons[2].text = "No"

UpdateOps == {"update_title", "update_message", "update_progress",
              "show_infinite_progress", "remove_progress", "cancel", "refresh"}

\* C4: on an instance whose sent flag is false (no send has succeeded on it),
\* each post-send operation fails with the not-sent-yet error, makes no
\* backend call and leaves every config and instance as it was.
C4_UnsentRejectsUpdates ==
    [][\A n \in NotifIds :
          (last'.op \in UpdateOps /\ last'.target = n /\ ~notifs[n].sent) =>
              /\ last'.outcome = ErrNotSent
              /\ last'.calls = <<>>
              /\ configs' = configs
              /\ notifs' = notifs]_vars

\* C4 witness: cancel was refused on an instance that holds a backend object
\* from a send that failed.
C4_Witness ==
    /\ last.op = "cancel"
    /\ last.outcome = ErrNotSent
    /\ notifs[last.target].notification # <<>>
    /\ ~notifs[last.target].sent

\* C5: once cancel has succeeded on an instance, every later update_title,
\* update_message, update_progress, show_infinite_progress, remove_progress or
\* refresh on it fails and makes no backend call.
C5_CancelledIsTerminal ==
    \A n \in NotifIds :
        (last.op \in UpdateOps \ {"cancel"} /\ last.target = n /\ notifs[n].cancels > 0) =>
            /\ last.outcome # Returned
            /\ last.calls = <<>>

\* C6: cancel succeeds at most once per instance: every cancel after the
\* first fails, so no instance has two cancels accepted by the backend.
C6_CancelAtMostOnce == \A n \in NotifIds : notifs[n].cancels <= 1

\* C7: update_progress on a sent instance whose style is not progress fails
\* with the wrong-style error, makes no backend call and changes no config.
C7_WrongStyleRejected ==
    [][\A n \in NotifIds :
          (last'.op = "update_progress" /\ last'.target = n /\ ~NotSent(notifs[n])
              /\ NCfg(n).style # PROGRESS) =>
              /\ last'.outcome = ErrWrongStyle
              /\ last'.calls = <<>>
              /\ configs' = configs]_vars

\* C7 witness: update_progress was refused on a sent instance whose config
\* still holds progress values but has style big_text.
C7_Witness ==
    /\ last.op = "update_progress"
    /\ last.outcome = ErrWrongStyle
    /\ notifs[last.target].sent
    /\ NCfg(last.target).style = BIG_TEXT

\* C8: update_progress(c, message=m) with a non-empty m and no title, when it
\* returns, leaves progress_current = c and message = m with the title as it
\* was, and has made exactly one backend call, updateProgressBar with
\* current_value = c and message = m.
C8_ProgressRoundTrip ==
    [][\A n \in NotifIds :
          (last'.op = "update_progress" /\ last'.target = n /\ last'.outcome = Returned
              /\ Truthy(last'.args.message) /\ last'.args.title = None) =>
              /\ configs'[notifs[n].config].progress_current = last'.args.current
              /\ configs'[notifs[n].config].message = last'.args.message
              /\ configs'[notifs[n].config].title = NCfg(n).title
              /\ configs'[notifs[n].config].progress_max = NCfg(n).progress_max
              /\ last'.calls = <<[call |-> "updateProgressBar",
                                  kwargs |-> [current_value |-> last'.args.current,
                                              message |-> last'.args.message],
                                  raised |-> FALSE]>>]_vars

\* C8 witness: with_progress(0, 100), send, update_progress(50, message="50%").
C8_Witness ==
    /\ last.op = "update_progress"
    /\ last.outcome = Returned
    /\ last.args.message = "50%"
    /\ NCfg(last.target).progress_current = 50
    /\ NCfg(last.target).progress_max = 100
    /\ NCfg(last.target).message = "50%"

\* C9: the managers callers hold are one per page: two references for the
\* same page are the same object, references for different pages are
\* different objects, each object is bound to the page it was returned for,
\* and a construction that returns hands out the table's object for its page.
C9_OneManagerPerPage ==
    /\ \A r1, r2 \in held : (r1[1] = r2[1]) <=> (r1[2] = r2[2])
    /\ \A r \in held : /\ instances[r[1]] = r[2]
                       /\ managers[r[2]].page = r[1]
                       /\ managers[r[2]].page_id = r[1]
    /\ (last.op = "FletNotify" /\ last.outcome = Returned) =>
           <<last.args.page, last.target>> \in held

\* C9 witness: managers for pageA and pageB are held and the last construction
\* returned the older of the two again.
C9_Witness ==
    /\ \E m1, m2 \in 1..Len(managers) : {<<"pageA", m1>>, <<"pageB", m2>>} \subseteq held
    /\ last.op = "FletNotify"
    /\ last.outcome = Returned
    /\ last.target < Len(managers)

\* C10: no caller holds a manager for a page whose platform is not Android,
\* and every construction for such a page fails with PlatformNotSupported.
C10_UnsupportedNeverConstructs ==
    /\ \A r \in held : PlatformOk(r[1])
    /\ (last.op = "FletNotify" /\ ~PlatformOk(last.args.page)) => last.outcome = ErrPlatform

\* C11: a send through a builder or a manager whose page is not Android
\* fails with PlatformNotSupported and makes no backend call, whatever the
\* builder holds; no instance exists for such a page.
C11_UnsupportedSendTouchesNothing ==
    /\ (last.op = "builder_send" /\ platform(builders[last.target].page) # "android") =>
           (last.outcome = ErrPlatform /\ last.calls = <<>>)
    /\ (last.op = "manager_send" /\ platform(managers[last.target].page) # "android") =>
           (last.outcome = ErrPlatform /\ last.calls = <<>>)
    /\ \A n \in NotifIds : platform(notifs[n].page) = "android"

\* C11 witness: send was refused on an iOS-page builder holding a button and a
\* big-text body.
C11_Witness ==
    /\ last.op = "builder_send"
    /\ last.outcome = ErrPlatform
    /\ builders[last.target].page = "pageIos"
    /\ Len(Cfg(last.target).buttons) > 0
    /\ Cfg(last.target).style = BIG_TEXT

\* the config a send call worked on
SendOps == {"builder_send", "send", "manager_send"}
SentTitle ==
    CASE last.op = "builder_send" -> Cfg(last.target).title
      [] last.op = "send" -> NCfg(last.target).title
      [] OTHER -> last.args.title
SentMessage ==
    CASE last.op = "builder_send" -> Cfg(last.target).message
      [] last.op = "send" -> NCfg(last.target).message
      [] OTHER -> last.args.message

\* C12: a send on a config whose title or message is empty does not return
\* normally and makes no backend call.
C12_EmptyTitleOrMessageRejected ==
    (last.op \in SendOps /\ (SentTitle = "" \/ SentMessage = "")) =>
        (last.outcome # Returned /\ last.calls = <<>>)

\* the config of the last send call, and whether its active style lacks its payload
SentConfig ==
    CASE last.op = "builder_send" -> Cfg(last.target)
      [] last.op = "send" -> NCfg(last.target)
      [] OTHER -> NotificationConfig(last.args.title, last.args.message,
                                     last.args.channel_id, "Padrao", URGENT, None)
PayloadUnset(cfg) ==
    \/ cfg.style = LARGE_ICON /\ ~Truthy(cfg.large_icon_path)
    \/ cfg.style = BIG_PICTURE /\ ~Truthy(cfg.big_picture_path)
    \/ cfg.style = BOTH_IMAGES /\ (~Truthy(cfg.large_icon_path) \/ ~Truthy(cfg.big_picture_path))
    \/ cfg.style = BIG_TEXT /\ ~Truthy(cfg.big_text_body)
    \/ cfg.style = INBOX /\ cfg.inbox_lines = <<>>

\* C13: a send on a config whose active style has no payload does not return
\* normally and creates no backend notification.
C13_StylePayloadRequired ==
    (last.op \in SendOps /\ PayloadUnset(SentConfig)) =>
        (last.outcome # Returned /\ \A i \in 1..Len(last.calls) : last.calls[i].call # "Notification")

\* whether a backend call of the given call list raised
Raised(calls) == \E i \in 1..Len(calls) : calls[i].raised

\* C14: when the backend raises in Notification(...), addButton or the
\* handle's send, the send call fails with the send-failed FletNotifyException
\* (not a return, not the unavailable or platform error), returns no new
\* instance, and an unsent instance stays unsent; when android_notify cannot be
\* imported the send call fails with AndroidNotifyNotAvailableException.
C14_RealizationFailureIsSendFailed ==
    [][last'.op \in SendOps =>
         /\ ~backendAvail => last'.outcome = ErrNotAvailable
         /\ Raised(last'.calls) =>
                /\ last'.outcome = ErrSendFailed
                /\ last'.outcome \notin {Returned, ErrNotAvailable, ErrPlatform}
                /\ Len(notifs') = Len(notifs)
                /\ \A n \in NotifIds : ~notifs[n].sent => ~notifs'[n].sent]_vars

\* C14 witness: send on a held instance failed in the second addButton and the
\* instance is unsent.
C14_Witness ==
    /\ last.op = "send"
    /\ last.outcome = ErrSendFailed
    /\ Len(last.calls) = 3
    /\ last.calls[3].call = "addButton" /\ last.calls[3].raised
    /\ ~notifs[last.target].sent

C16_UnavailableSurfacesAtSend ==
    ~backendAvail =>
        /\ (last.op = "FletNotify" /\ platform(last.args.page) = "android") =>
               last.outcome = Returned
        /\ last.op \notin SendOps => last.outcome # ErrNotAvailable
        /\ last.op \in SendOps => (last.outcome = ErrNotAvailable /\ last.calls = <<>>)
        /\ \A n \in NotifIds : ~notifs[n].sent /\ notifs[n].notification = <<>>

\* C16 witness: without android_notify a manager is held and its send was refused.
C16_Witness ==
    /\ ~backendAvail
    /\ held # {}
    /\ last.op = "manager_send"
    /\ last.outcome = ErrNotAvailable

\* C17: whatever the interleaving of concurrent FletNotify(page) calls, all
\* callers of one page hold the same manager object.
C17_ConcurrentCallersShareInstance ==
    \A r1 \in held, r2 \in held : r1[1] = r2[1] => r1[2] = r2[2]

ChannelOps == {"create_channel", "delete_channel", "delete_all_channels"}

\* C18: each channel operation fails with AndroidNotifyNotAvailableException
\* when android_notify cannot be imported, and fails with the channel-failed
\* FletNotifyException when the backend call raises.
C18_ChannelErrorsAreWrapped ==
    last.op \in ChannelOps =>
        /\ ~backendAvail => last.outcome = ErrNotAvailable
        /\ Raised(last.calls) => last.outcome = ErrChannelFailed

\* the exception classes the module defines
CoreErrorTypes == {"FletNotifyException", "PermissionDeniedException",
                   "PlatformNotSupportedException", "AndroidNotifyNotAvailableException"}

\* C19: when the backend object raises inside a post-send operation, the call
\* does not return normally and the exception the caller gets is one of the
\* module's own classes.
C19_UpdateFailureIsTyped ==
    (last.op \in UpdateOps /\ Raised(last.calls)) =>
        (last.outcome # Returned /\ last.outcome.type \in CoreErrorTypes)

\* whether the probe meets an error: jnius missing, no host activity name, or
\* a platform call that is made and throws
ProbeError(env) ==
    \/ ~env.jnius
    \/ env.activity \in {None, ""}
    \/ env.fail = "autoclass"
    \/ env.fail = "check" /\ env.sdk >= 33

\* C20: check_permission always returns a boolean: FALSE on any probe error,
\* TRUE below SDK 33, and otherwise TRUE exactly when checkSelfPermission
\* reports PERMISSION_GRANTED.
C20_CheckPermissionNeverRaises ==
    last.op = "check_permission" =>
        /\ last.outcome.type = "return"
        /\ last.outcome.value =
              IF ProbeError(last.args) THEN FALSE
              ELSE IF last.args.sdk < 33 THEN TRUE
              ELSE last.args.check = "PERMISSION_GRANTED"

\* C20 witness: on SDK 33 with no probe error the permission is granted and
\* check_permission returned TRUE.
C20_Witness ==
    /\ last.op = "check_permission"
    /\ ~ProbeError(last.args)
    /\ last.args.sdk = 33
    /\ last.args.check = "PERMISSION_GRANTED"
    /\ last.outcome = ReturnedValue(TRUE)

\* the requestPermissions calls among the backend calls of the last call
Prompts == {i \in 1..Len(last.calls) : last.calls[i].call = "requestPermissions"}

\* C21: request_permission fails with PermissionDeniedException when jnius is
\* missing, the host activity name is unset or a platform call it makes
\* throws; otherwise it returns TRUE, having asked for the dialog exactly once
\* on SDK >= 33 and not at all below.
C21_RequestPermissionGate ==
    last.op = "request_permission" =>
        LET env == last.args
            failed == \/ ~env.jnius
                      \/ env.activity \in {None, ""}
                      \/ env.fail = "autoclass"
                      \/ env.fail = "request" /\ env.sdk >= 33
        IN /\ failed => last.outcome = ErrPermissionFailed
           /\ ~failed => /\ last.outcome = ReturnedValue(TRUE)
                         /\ Cardinality(Prompts) = IF env.sdk < 33 THEN 0 ELSE 1
           /\ env.sdk < 33 => Prompts = {}
           /\ Cardinality(Prompts) <= 1

\* C21 witness: on SDK 34 the dialog was requested once and the call returned TRUE.
C21_Witness ==
    /\ last.op = "request_permission"
    /\ last.args.sdk = 34
    /\ last.outcome = ReturnedValue(TRUE)
    /\ Cardinality(Prompts) = 1

\* what create(title, message, channel_id).send(silent, persistent) yields on
\* page pg when the backend raises at fail: the builder's config is the one
\* create makes, and the builder's send constructs the instance and sends it
\* with close_on_click left at its default
CreateThenSend(pg, title, message, channel_id, silent, persistent, fail, config_id) ==
    LET cfg == NotificationConfig(title, message, channel_id, "Padrao", URGENT, None)
        r == send(NewFletNotification(pg, config_id), cfg,
                  [silent |-> silent, persistent |-> persistent, close_on_click |-> TRUE],
                  fail, backendAvail)
    IN IF platform(pg) = "android"
       THEN [cfg |-> cfg, notif |-> r.notif, outcome |-> r.outcome, calls |-> r.calls]
       ELSE [cfg |-> cfg, notif |-> r.notif, outcome |-> ErrPlatform, calls |-> <<>>]

\* C22: FletNotify.send(title, message, channel_id, silent, persistent) has the
\* outcome, the backend calls and, when it returns, the instance and config of
\* create(title, message, channel_id).send(silent, persistent) under the same
\* backend behaviour.
C22_ManagerSendIsCreateThenSend ==
    last.op = "manager_send" =>
        \E fail \in FailPoints(NotificationConfig("", "", "", "", "", "")) :
            LET a == last.args
                r == CreateThenSend(managers[last.target].page, a.title, a.message,
                                    a.channel_id, a.silent, a.persistent, fail,
                                    Len(configs))
            IN /\ last.outcome = r.outcome
               /\ last.calls = r.calls
               /\ r.outcome = Returned =>
                      /\ notifs # <<>>
                      /\ notifs[Len(notifs)] = r.notif
                      /\ configs[Len(configs)] = r.cfg

\* C22 witness: a silent manager send went through to the handle's send.
C22_Witness ==
    /\ last.op = "manager_send"
    /\ last.args.silent
    /\ last.outcome = Returned
    /\ Len(last.calls) = 2
    /\ last.calls[2].call = "send" /\ last.calls[2].silent /\ ~last.calls[2].persistent

BuilderOps == {"set_icon", "add_button", "with_progress", "set_large_icon",
               "set_big_picture", "set_big_text", "add_line", "set_lines"}

BackendMethods == {"Notification", "addButton", "send", "updateTitle", "updateMessage",
                   "updateProgressBar", "showInfiniteProgressBar", "removeProgressBar",
                   "cancel", "refresh"}

\* C24: the backend calls of a send are, in this order, Notification(...), one
\* addButton per button of the config in list order with that button's text
\* and callback, and the handle's send, cut short only at a call that raises;
\* the sent flag is raised only in a step whose last backend call is the
\* handle's send returning; and no call the module makes is a button callback.
C24_SendCallOrder ==
    [][/\ (last'.op \in SendOps /\ last'.calls # <<>>) =>
            LET calls == last'.calls
                k == Len(calls)
                cfg == IF last'.op = "builder_send" THEN configs'[builders'[last'.target].config]
                       ELSE IF last'.op = "send" THEN configs'[notifs'[last'.target].config]
                       ELSE NotificationConfig(last'.args.title, last'.args.message,
                                               last'.args.channel_id, "Padrao", URGENT, None)
                nb == Len(cfg.buttons)
            IN /\ k <= nb + 2
               /\ \A i \in 1..k :
                    /\ i = 1 => calls[i].call = "Notification"
                    /\ (1 < i /\ i <= nb + 1) =>
                           /\ calls[i].call = "addButton"
                           /\ calls[i].text = cfg.buttons[i - 1].text
                           /\ calls[i].callback = cfg.buttons[i - 1].callback
                    /\ i = nb + 2 => calls[i].call = "send"
                    /\ i < k => ~calls[i].raised
               /\ k < nb + 2 => calls[k].raised
               /\ last'.outcome = Returned <=> (k = nb + 2 /\ ~calls[k].raised)
       /\ \A n \in 1..Len(notifs') :
            (notifs'[n].sent /\ (n \in NotifIds => ~notifs[n].sent)) =>
                /\ last'.calls # <<>>
                /\ last'.calls[Len(last'.calls)].call = "send"
                /\ ~last'.calls[Len(last'.calls)].raised
       /\ \A i \in 1..Len(last'.calls) : last'.calls[i].call \in BackendMethods
      ]_vars

\* C24 witness: a send with buttons Yes then No went through: Notification,
\* addButton Yes, addButton No, send.
C24_Witness ==
    /\ last.op = "builder_send"
    /\ last.outcome = Returned
    /\ Len(last.calls) = 4
    /\ last.calls[2].text = "Yes" /\ last.calls[2].callback = "on_yes"
    /\ last.calls[3].text = "No" /\ last.calls[3].callback = "on_no"
    /\ last.calls[4].call = "send"

\* the keyword arguments that belong to a style, and all such arguments
StyleFields(style) ==
    CASE style = PROGRESS -> {"progress_current_value", "progress_max_value"}
      [] style = LARGE_ICON -> {"large_icon_path"}
      [] style = BIG_PICTURE -> {"big_picture_path"}
      [] style = BOTH_IMAGES -> {"large_icon_path", "big_picture_path"}
      [] style = BIG_TEXT -> {"body"}
      [] style = INBOX -> {"lines_txt"}
      [] OTHER -> {}
AllStyleFields == UNION {StyleFields(st) : st \in NotificationStyle}

\* C25: the keyword arguments of Notification(...) hold the style-specific
\* fields of the config's current style and of no other style, whatever
\* builder calls came before.
C25_OnlyActiveStylePayloadSent ==
    (last.op \in SendOps /\ last.calls # <<>>) =>
        /\ last.calls[1].call = "Notification"
        /\ last.calls[1].kwargs.style = SentConfig.style
        /\ DOMAIN last.calls[1].kwargs \cap AllStyleFields = StyleFields(SentConfig.style)

\* C25 witness: with_progress(5, 10) then set_big_text("body") then send: the
\* config still holds the progress bounds, the backend got the body only.
C25_Witness ==
    /\ last.op = "builder_send"
    /\ last.calls # <<>>
    /\ SentConfig.progress_max = 10
    /\ SentConfig.style = BIG_TEXT
    /\ "body" \in DOMAIN last.calls[1].kwargs
    /\ "progress_max_value" \notin DOMAIN last.calls[1].kwargs

\* the payload fields of a config's current style
PayloadOf(cfg) ==
    CASE cfg.style = PROGRESS -> <<cfg.progress_current, cfg.progress_max>>
      [] cfg.style = INBOX -> <<cfg.inbox_lines>>
      [] cfg.style = BIG_TEXT -> <<cfg.big_text_body>>
      [] cfg.style = LARGE_ICON -> <<cfg.large_icon_path>>
      [] cfg.style = BIG_PICTURE -> <<cfg.big_picture_path>>
      [] cfg.style = BOTH_IMAGES -> <<cfg.large_icon_path, cfg.big_picture_path>>
      [] OTHER -> <<>>

\* the builder calls that lead to a style
SettersOf(style) ==
    CASE style = PROGRESS -> {"with_progress"}
      [] style = INBOX -> {"add_line", "set_lines"}
      [] style = BIG_TEXT -> {"set_big_text"}
      [] style = LARGE_ICON -> {"set_large_icon"}
      [] style = BIG_PICTURE -> {"set_big_picture"}
      [] style = BOTH_IMAGES -> {"set_large_icon", "set_big_picture"}
      [] OTHER -> {}

\* a builder's non-simple style and its payload come from a call of one of that
\* style's setters on that builder, which stored its arguments
PayloadSetByCall ==
    [][\A b \in BuilderIds :
          LET old == configs[builders[b].config]
              new == configs'[builders[b].config]
          IN (new.style # SIMPLE /\ (new.style # old.style \/ PayloadOf(new) # PayloadOf(old)))
             => /\ last'.target = b
                /\ last'.op \in SettersOf(new.style)
                /\ last'.op = "with_progress" =>
                       /\ new.progress_current = last'.args.current
                       /\ new.progress_max = last'.args.max_value
                /\ last'.op = "set_big_text" => new.big_text_body = last'.args.body
                /\ last'.op = "set_large_icon" => new.large_icon_path = last'.args.path
                /\ last'.op = "set_big_picture" => new.big_picture_path = last'.args.path
                /\ last'.op = "set_lines" => new.inbox_lines = last'.args.lines
                /\ last'.op = "add_line" =>
                       new.inbox_lines = Append(old.inbox_lines, last'.args.text)]_vars

\* the optional payload of the current style has been assigned by a call
\* (a fresh config holds None there)
PayloadAssigned(cfg) ==
    /\ cfg.style = BIG_TEXT => cfg.big_text_body # None
    /\ cfg.style = LARGE_ICON => cfg.large_icon_path # None
    /\ cfg.style = BIG_PICTURE => cfg.big_picture_path # None
    /\ cfg.style = BOTH_IMAGES => (cfg.large_icon_path # None /\ cfg.big_picture_path # None)

BuilderCalls ==
    {[op |-> "set_icon", path |-> p] : p \in {"icon.png", "other.png"}}
    \cup {[op |-> "add_button", btn |-> btn] : btn \in ButtonInputs}
    \cup {[op |-> "with_progress", p |-> p] : p \in ProgressInputs}
    \cup {[op |-> "set_large_icon", path |-> p] : p \in Paths}
    \cup {[op |-> "set_big_picture", path |-> p] : p \in Paths}
    \cup {[op |-> "set_big_text", body |-> x] : x \in Bodies}
    \cup {[op |-> "add_line", text |-> x] : x \in LineTexts}
    \cup {[op |-> "set_lines", lines |-> ls] : ls \in SeqsUpTo(LineTexts, 1)}

FieldOf(call) ==
    CASE call.op = "set_icon" -> "app_icon"
      [] call.op = "add_button" -> "buttons"
      [] call.op = "with_progress" -> "progress"
      [] call.op = "set_large_icon" -> "large_icon_path"
      [] call.op = "set_big_picture" -> "big_picture_path"
      [] call.op = "set_big_text" -> "big_text_body"
      [] OTHER -> "inbox_lines"

Apply(cfg, call) ==
    CASE call.op = "set_icon" -> set_icon(cfg, call.path)
      [] call.op = "add_button" ->
            IF add_button_raises(cfg) THEN cfg
            ELSE add_button(cfg, call.btn.text, call.btn.callback)
      [] call.op = "with_progress" -> with_progress(cfg, call.p.current, call.p.max_value)
      [] call.op = "set_large_icon" -> set_large_icon(cfg, call.path)
      [] call.op = "set_big_picture" -> set_big_picture(cfg, call.path)
      [] call.op = "set_big_text" -> set_big_text(cfg, call.body)
      [] call.op = "add_line" -> add_line(cfg, call.text)
      [] OTHER -> set_lines(cfg, call.lines)

\* C27 as stated, in its weakest reading: whatever the two builder calls, both
\* orders leave the same button list and the same icon (fields the style
\* rule does not touch).
C27_AnyTwoCallsCommute ==
    \A b \in BuilderIds : \A c1 \in BuilderCalls, c2 \in BuilderCalls :
        LET xy == Apply(Apply(Cfg(b), c1), c2)
            yx == Apply(Apply(Cfg(b), c2), c1)
        IN xy.buttons = yx.buttons /\ xy.app_icon = yx.app_icon

\* C27 amended: two builder calls that write different fields leave the same
\* config in both orders except for the style, which is the one of the later
\* style-affecting call; add_button fails in one order exactly when it fails
\* in the other.
C27_DifferentFieldsCommute ==
    \A b \in BuilderIds : \A c1 \in BuilderCalls, c2 \in BuilderCalls :
        FieldOf(c1) # FieldOf(c2) =>
            LET xy == Apply(Apply(Cfg(b), c1), c2)
                yx == Apply(Apply(Cfg(b), c2), c1)
            IN /\ [xy EXCEPT !.style = SIMPLE] = [yx EXCEPT !.style = SIMPLE]
               /\ add_button_raises(Cfg(b)) = add_button_raises(Apply(Cfg(b), c1))
                    \/ c1.op = "add_button"
               /\ (c1.op \notin StyleOps /\ c2.op \notin StyleOps) => xy = yx
               /\ (c1.op \in StyleOps /\ c2.op \notin StyleOps) => xy = yx

\* C27 witness: a builder with two buttons, an icon and a big picture, on which
\* set_large_icon("") and set_big_text commute up to the style.
C27_Witness ==
    \E b \in BuilderIds :
        /\ Len(Cfg(b).buttons) = 2
        /\ Truthy(Cfg(b).app_icon)
        /\ Truthy(Cfg(b).big_picture_path)
        /\ Apply(Apply(Cfg(b), [op |-> "set_large_icon", path |-> ""]),
                 [op |-> "set_big_text", body |-> "body"]).style = BIG_TEXT
        /\ Apply(Apply(Cfg(b), [op |-> "set_big_text", body |-> "body"]),
                 [op |-> "set_large_icon", path |-> ""]).style = BOTH_IMAGES

\* C28: a builder's stored lines are the list of its last set_lines followed
\* by the texts of its later add_line calls: set_lines on the builder stores
\* the list given, add_line on it appends the text, and no other step
\* changes the builder's lines; a send in inbox style hands them over joined
\* by newline.
C28_LinesFollowOwnCalls ==
    [][\A b \in BuilderIds :
          LET old == configs[builders[b].config].inbox_lines
              new == configs'[builders[b].config].inbox_lines
          IN /\ IF last'.op = "set_lines" /\ last'.target = b
                THEN new = last'.args.lines
                ELSE IF last'.op = "add_line" /\ last'.target = b
                THEN new = Append(old, last'.args.text)
                ELSE new = old
             /\ (last'.op = "builder_send" /\ last'.target = b /\ last'.calls # <<>>
                   /\ configs[builders[b].config].style = INBOX)
                => last'.calls[1].kwargs.lines_txt = Join(old)]_vars

\* C29: an update_title(t) that returns has stored t as the config's title and
\* made exactly one backend call, updateTitle(t), leaving the message alone;
\* an update_message(m) that returns has stored m as the message and made
\* exactly one backend call, updateMessage(m), leaving the title alone. So
\* after each such call the stored text is the text last handed over.
C29_UpdateStoresAndForwards ==
    [][\A n \in NotifIds :
          LET old == configs[notifs[n].config]
              new == configs'[notifs'[n].config]
          IN /\ (last'.op = "update_title" /\ last'.target = n /\ last'.outcome = Returned)
                => /\ new = [old EXCEPT !.title = last'.args.new_title]
                   /\ Len(last'.calls) = 1
                   /\ last'.calls[1].call = "updateTitle"
                   /\ last'.calls[1].title = last'.args.new_title
                   /\ new.title = last'.calls[1].title
             /\ (last'.op = "update_message" /\ last'.target = n /\ last'.outcome = Returned)
                => /\ new = [old EXCEPT !.message = last'.args.new_message]
                   /\ Len(last'.calls) = 1
                   /\ last'.calls[1].call = "updateMessage"
                   /\ last'.calls[1].message = last'.args.new_message
                   /\ new.message = last'.calls[1].message]_vars

\* C29 witness: update_message("N") returned on a sent instance: the config
\* and the backend call both carry "N".
C29_Witness ==
    /\ last.op = "update_message"
    /\ last.outcome = Returned
    /\ NCfg(last.target).message = "N"
    /\ last.calls[1].message = "N"
    /\ NCfg(last.target).title = "T"

\* C30: an update_progress(current) that gets past its guards stores current
\* as given and hands the same value to updateProgressBar as current_value,
\* also when current is above progress_max or below 0, and leaves
\* progress_max as it was.
C30_UpdateProgressDoesNotClamp ==
    [][\A n \in NotifIds :
          (last'.op = "update_progress" /\ last'.target = n
              /\ last'.outcome \notin {ErrNotSent, ErrWrongStyle}) =>
              /\ configs'[notifs[n].config].progress_current = last'.args.current
              /\ Len(last'.calls) = 1
              /\ last'.calls[1].kwargs.current_value = last'.args.current
              /\ configs'[notifs[n].config].progress_max = NCfg(n).progress_max]_vars

\* C30 witness: update_progress(200) on a 0..100 bar stored and forwarded 200.
C30_Witness ==
    /\ last.op = "update_progress"
    /\ last.outcome = Returned
    /\ last.args.current = 200
    /\ NCfg(last.target).progress_current = 200
    /\ NCfg(last.target).progress_max = 100
    /\ last.calls[1].kwargs.current_value = 200

\* C30 second case: a value below 0 is stored and forwarded as given.
C30_WitnessBelowZero ==
    /\ last.op = "update_progress"
    /\ last.outcome = Returned
    /\ NCfg(last.target).progress_current = -1
    /\ last.calls[1].kwargs.current_value = -1

\* C31: show_infinite_progress on a sent instance hands exactly one
\* showInfiniteProgressBar to the backend and leaves every config (stored
\* progress current and max included) and every instance as it was, whether
\* or not the backend raises.
C31_InfiniteProgressKeepsModel ==
    [][\A n \in NotifIds :
          (/\ last'.op = "show_infinite_progress"
           /\ last'.target = n
           /\ notifs[n].sent
           /\ notifs[n].notification # <<>>) =>
              /\ Len(last'.calls) = 1
              /\ last'.calls[1].call = "showInfiniteProgressBar"
              /\ configs' = configs
              /\ notifs' = notifs]_vars

\* C31 witness: the indeterminate bar was shown on a sent progress
\* notification whose stored current value had been moved to 50 of 100.
C31_Witness ==
    /\ last.op = "show_infinite_progress"
    /\ last.outcome = Returned
    /\ Len(last.calls) = 1
    /\ NCfg(last.target).style = PROGRESS
    /\ NCfg(last.target).progress_current = 50
    /\ NCfg(last.target).progress_max = 100

\* C32: whatever sends (repeated, failing or not) and updates came before,
\* an update_title, update_message, update_progress, show_infinite_progress,
\* remove_progress, cancel or refresh that reaches the backend is called on a
\* backend object whose own send has completed.
C32_UpdatesTargetSentHandle ==
    [][\A n \in NotifIds :
          (last'.op \in UpdateOps /\ last'.target = n /\ last'.calls # <<>>) =>
              /\ notifs[n].notification # <<>>
              /\ notifs[n].notification[1].sent]_vars

\* the config fields C33 speaks of
OwnedFields(cfg) ==
    <<cfg.title, cfg.message, cfg.style, cfg.progress_current, cfg.progress_max>>

\* C33: an instance returned by the builder's send has a config of its own:
\* a later call on the builder, or an update on another instance, leaves the
\* title, message, style and progress fields the instance reads as they were.
C33_InstanceOwnsConfig ==
    [][\A n \in NotifIds :
          (last'.op \in BuilderOps \/ (last'.op \in UpdateOps /\ last'.target # n)) =>
              OwnedFields(configs'[notifs[n].config]) = OwnedFields(configs[notifs[n].config])
      ]_vars

\* C34: when the backend object raises during update_title, update_message
\* or update_progress on a sent instance, the instance's config (title,
\* message, progress current) is what it was before the call.
C34_FailedUpdateKeepsModel ==
    [][\A n \in NotifIds :
          (/\ last'.op \in {"update_title", "update_message", "update_progress"}
           /\ last'.target = n
           /\ Raised(last'.calls)) =>
              LET before == configs[notifs[n].config]
                  after == configs'[notifs[n].config]
              IN /\ after.title = before.title
                 /\ after.message = before.message
                 /\ after.progress_current = before.progress_current]_vars

\* C35: with non-empty paths given to the image setters, a config whose
\* style is large_icon stores no big-picture path and one whose style is
\* big_picture stores no large-icon path; a call other than the setter of an
\* image leaves that image's path as it was, and a config that stores both
\* paths never gets the style large_icon or big_picture from a later call.
C35_ImageStyleMatchesPaths ==
    /\ [](\A b \in BuilderIds :
             /\ Cfg(b).style = LARGE_ICON => ~Truthy(Cfg(b).big_picture_path)
             /\ Cfg(b).style = BIG_PICTURE => ~Truthy(Cfg(b).large_icon_path))
    /\ [][\A b \in BuilderIds :
             LET before == configs[builders[b].config]
                 after == configs'[builders[b].config]
             IN /\ last'.op # "set_large_icon" =>
                      after.large_icon_path = before.large_icon_path
                /\ last'.op # "set_big_picture" =>
                      after.big_picture_path = before.big_picture_path
                /\ Truthy(before.large_icon_path) => Truthy(after.large_icon_path)
                /\ Truthy(before.big_picture_path) => Truthy(after.big_picture_path)
                /\ (Truthy(before.large_icon_path) /\ Truthy(before.big_picture_path)) =>
                      after.style \notin {LARGE_ICON, BIG_PICTURE}]_vars

\* C35 witness: set_large_icon was called on a config that stores a big
\* picture and has also been through set_big_text and with_progress, and the
\* style became both_images.
C35_Witness ==
    /\ last.op = "set_large_icon"
    /\ Cfg(last.target).style = BOTH_IMAGES
    /\ Cfg(last.target).large_icon_path = "p1"
    /\ Cfg(last.target).big_picture_path = "p2"
    /\ Cfg(last.target).big_text_body = "body"
    /\ Cfg(last.target).progress_max = 10

\* C36: cancel_all hands exactly one cancelAll to the backend, or fails with
\* AndroidNotifyNotAvailableException without a backend call when
\* android_notify cannot be imported; it leaves every instance (sent flag,
\* backend object) and every config as it was, so that an instance that
\* was sent before still passes the guard of an update and forwards it.
C36_CancelAllTouchesNoInstance ==
    [][last'.op = "cancel_all" =>
          /\ IF backendAvail
             THEN /\ Len(last'.calls) = 1
                  /\ last'.calls[1].call = "cancelAll"
                  /\ last'.outcome # ErrNotAvailable
             ELSE /\ last'.calls = <<>>
                  /\ last'.outcome = ErrNotAvailable
          /\ notifs' = notifs
          /\ configs' = configs
          /\ \A n \in NotifIds :
                (notifs[n].sent /\ notifs[n].notification # <<>>) =>
                    LET r == update_title(notifs'[n], configs'[notifs'[n].config], "N",
                                          FALSE)
                    IN /\ r.outcome = Returned
                       /\ Len(r.calls) = 1
                       /\ r.calls[1].call = "updateTitle"]_vars

\* C36 witness: cancel_all returned while a sent instance exists.
C36_Witness ==
    /\ last.op = "cancel_all"
    /\ last.outcome = Returned
    /\ \E n \in NotifIds : notifs[n].sent /\ notifs[n].notification # <<>>
====
